---------------------------- MODULE Spec2Model ----------------------------
(***************************************************************************)
(* Model of the npm_package crate (src/lib.rs): get_package_info,          *)
(* is_package_exists, get_package_json_path, get_package_json,             *)
(* get_package_entry and resolve, over a small filesystem.                 *)
(*                                                                         *)
(* Encodings                                                               *)
(*   Option<T>   a sequence of length 0 (None) or 1 (Some(x))              *)
(*   Path        the sequence of its components; an absolute path starts   *)
(*               with the root component "/" (PathBuf compares by          *)
(*               components, so "a/./b" and "a/b" are the same path)       *)
(*   String that is later used as a path (main, module, export targets):   *)
(*               the component sequence Path::new gives for it             *)
(*   HashMap     a function from a bounded key universe to Option          *)
(*   a call's outcome: [fault, val]; fault = TRUE is a panic (unwrap on    *)
(*               None / Err), otherwise val is the value returned          *)
(***************************************************************************)
EXTENDS Naturals, Sequences, FiniteSets, TLC

VARIABLES
    fs,                 \* the filesystem: candidate manifest path -> file state
    proc_cwd,           \* the process's working directory (env::current_dir)
    CURRENT_DIR,        \* the LazyLock snapshot: None until first use
    pc,                 \* position of the running call
    op,                 \* which public function is running
    name,               \* argument: the requested package name
    options,            \* argument: Options { cwd }
    package_json_path,  \* local of get_package_info (Option<PathBuf>)
    package_json,       \* local of get_package_info (Option<PackageJSON>)
    package_entry,      \* local of get_package_info (Option<PathBuf>)
    entry_file,         \* the file state get_package_entry's own read found
    info,               \* value returned by get_package_info (Option<PackageInfo>)
    exists,             \* value returned by is_package_exists (Option<bool>)
    exists_checks,      \* number of try_exists calls made by the running call
    reads,              \* number of fs::read_to_string calls made by the running call
    writes,             \* number of writes other processes made so far
    dirty               \* another process wrote to the filesystem during the running call

vars == << fs, proc_cwd, CURRENT_DIR, pc, op, name, options, package_json_path,
           package_json, package_entry, entry_file, info, exists, exists_checks, reads,
           writes, dirty >>

-----------------------------------------------------------------------------
(* Bounds *)

\* writes by other processes in one behaviour
MaxWrites == 1

-----------------------------------------------------------------------------
(* Option *)

None == << >>

Some(x) == << x >>

IsSome(o) == Len(o) = 1

IsNone(o) == Len(o) = 0

Unwrap(o) == o[1]

Option(S) == { None } \cup { Some(x) : x \in S }

\* the outcome of a call that returned v
Ret(v) == [fault |-> FALSE, val |-> v]

\* the outcome of a call that panicked
Panic == [fault |-> TRUE, val |-> None]

-----------------------------------------------------------------------------
(* Paths *)

IsAbsolute(p) == Len(p) > 0 /\ p[1] = "/"

\* Path::join: an absolute argument replaces the base
join(base, p) == IF IsAbsolute(p) THEN p ELSE base \o p

\* Path::parent: None for the empty path and for the root
parent(p) ==
    IF Len(p) = 0 \/ p = << "/" >> THEN None
    ELSE Some(SubSeq(p, 1, Len(p) - 1))

-----------------------------------------------------------------------------
(* The values the model draws from *)

\* requested package names
Names == { "consola", "Abc", ".bin" }

\* directories the process can be in
WorkDirs == { << "/", "work" >>, << "/", "proj" >> }

\* Options { cwd }: no override, or an explicit base directory
OptionsSet == [cwd : Option({ << "/", "proj" >> })]

\* format!("node_modules/{}/package.json", name), as a relative path
manifest_id(n) == << "node_modules", n, "package.json" >>

\* every path a call can look at
Paths == { join(d, manifest_id(n)) : d \in WorkDirs, n \in Names }

\* ExportValue::String(s)
ExportString(s) ==
    [kind |-> "String", str |-> s, map |-> [import |-> None, require |-> None]]

\* ExportValue::HashMap(m), m over the condition names import and require
ExportHashMap(m) == [kind |-> "HashMap", str |-> << >>, map |-> m]

ConditionMaps ==
    [import : Option({ << "dist", "esm.mjs" >> }),
     require : Option({ << "dist", "cjs.cjs" >> })]

ExportValues ==
    { ExportString(<< "/", "opt", "pkg", "index.js" >>) }
        \cup { ExportHashMap(m) : m \in ConditionMaps }

\* the keys an exports map may hold
ExportKeys == { ".", "./sub" }

\* HashMap<String, ExportValue>: only "./sub", or only "."
ExportMaps ==
    { [k \in ExportKeys |->
          IF k = "./sub" THEN Some(ExportString(<< "sub.js" >>)) ELSE None] }
        \cup { [k \in ExportKeys |-> IF k = "." THEN Some(v) ELSE None] :
                   v \in ExportValues }

\* the decoded manifests (the fields of PackageJSON the code reads)
PackageJSONs ==
    [name : Option({ "consola" }),
     version : Option({ "3.2.3" }),
     type : Option({ "module", "commonjs" }),
     main : Option({ << "lib", "index.cjs" >>, << "/", "opt", "pkg", "main.js" >> }),
     module : Option({ << "dist", "index.mjs" >> }),
     exports : Option(ExportMaps)]

\* a path that does not exist
Absent == [kind |-> "absent", doc |-> None]

\* a path whose existence cannot be determined (try_exists is Err)
NoAccess == [kind |-> "noaccess", doc |-> None]

\* a path that exists and cannot be read as text (a directory, no permission)
Unreadable == [kind |-> "unreadable", doc |-> None]

\* a readable file that does not decode as a PackageJSON
Malformed == [kind |-> "malformed", doc |-> None]

\* a readable file that decodes to m
Json(m) == [kind |-> "json", doc |-> Some(m)]

FileStates ==
    { Absent, NoAccess, Unreadable, Malformed } \cup { Json(m) : m \in PackageJSONs }

\* the manifests another process installs while a call is running: an ES
\* module package and a legacy package that declares main alone
InterfereJSONs ==
    { [name |-> Some("consola"), version |-> Some("3.2.3"),
       type |-> Some("module"), main |-> Some(<< "lib", "index.cjs" >>),
       module |-> Some(<< "dist", "index.mjs" >>), exports |-> None],
      [name |-> None, version |-> None, type |-> None,
       main |-> Some(<< "lib", "index.cjs" >>), module |-> None,
       exports |-> None] }

InterfereStates ==
    { Absent, Unreadable, Malformed } \cup { Json(m) : m \in InterfereJSONs }

-----------------------------------------------------------------------------
(* The external collaborators: name validation and the filesystem *)

\* validate(name) of the validate_npm_package_name crate: "consola" is valid,
\* "Abc" (capital letter) is valid under the legacy rules only, ".bin"
\* (leading period) under neither
validate(n) ==
    [valid_for_new_packages |-> n = "consola",
     valid_for_old_packages |-> n \in { "consola", "Abc" }]

\* the file state at path p
file_at(fsv, p) == IF p \in DOMAIN fsv THEN fsv[p] ELSE Absent

\* Path::try_exists: Err when existence cannot be determined, else Ok(bool)
try_exists(fsv, p) ==
    IF file_at(fsv, p).kind = "noaccess" THEN [ok |-> FALSE, val |-> FALSE]
    ELSE [ok |-> TRUE, val |-> file_at(fsv, p).kind # "absent"]

\* fs::read_to_string: Ok for a readable file
read_ok(fsv, p) == file_at(fsv, p).kind \in { "malformed", "json" }

\* serde_json::from_str on the text read from p: Err for a malformed document
decode_ok(fsv, p) == file_at(fsv, p).kind = "json"

-----------------------------------------------------------------------------
(* The crate's functions *)

is_invalid_name_flag_slip(n) ==
    ~validate(n).valid_for_new_packages /\ validate(n).valid_for_old_packages

\* the rejection test of get_package_info
is_invalid_name(n) ==
    ~validate(n).valid_for_new_packages /\ ~validate(n).valid_for_old_packages

\* LazyLock::force on CURRENT_DIR: the first use takes the snapshot
force(snapshot, cwd_now) == IF IsSome(snapshot) THEN snapshot ELSE Some(cwd_now)

\* the snapshot after a call of resolve with options o
snapshot_after(o, snapshot, cwd_now) ==
    IF IsSome(o.cwd) THEN snapshot ELSE force(snapshot, cwd_now)

\* the cwd of resolve
base_dir(o, snapshot, cwd_now) ==
    IF IsSome(o.cwd) THEN Unwrap(o.cwd) ELSE Unwrap(force(snapshot, cwd_now))

resolve_unchecked(id, o, snapshot, cwd_now, fsv) ==
    Ret([ok |-> TRUE, val |-> join(base_dir(o, snapshot, cwd_now), id)])

\* resolve: Ok(path) if the joined path exists, Err otherwise; panics when
\* try_exists is Err
resolve(id, o, snapshot, cwd_now, fsv) ==
    LET p == join(base_dir(o, snapshot, cwd_now), id)
        e == try_exists(fsv, p)
    IN  IF ~e.ok THEN Panic
        ELSE IF e.val THEN Ret([ok |-> TRUE, val |-> p])
        ELSE Ret([ok |-> FALSE, val |-> p])

\* get_package_json_path: Some(path) on Ok, None on Err
get_package_json_path(n, o, snapshot, cwd_now, fsv) ==
    LET r == resolve(manifest_id(n), o, snapshot, cwd_now, fsv)
    IN  IF r.fault THEN Panic
        ELSE IF r.val.ok THEN Ret(Some(r.val.val))
        ELSE Ret(None)

is_package_exists_validating(n, o, snapshot, cwd_now, fsv) ==
    LET r == get_package_json_path(n, o, snapshot, cwd_now, fsv)
    IN  IF is_invalid_name(n) THEN Ret(FALSE)
        ELSE IF r.fault THEN Panic
        ELSE Ret(IsSome(r.val))

\* is_package_exists
is_package_exists(n, o, snapshot, cwd_now, fsv) ==
    LET r == get_package_json_path(n, o, snapshot, cwd_now, fsv)
    IN  IF r.fault THEN Panic ELSE Ret(IsSome(r.val))

\* get_package_json: None when the read fails, panics when the decode fails
get_package_json(fsv, p) ==
    IF ~read_ok(fsv, p) THEN Ret(None)
    ELSE IF ~decode_ok(fsv, p) THEN Panic
    ELSE Ret(file_at(fsv, p).doc)

is_module_package_any_type(m) == IsSome(m.module)

\* the test of the first branch of get_package_entry
is_module_package(m) ==
    (IsSome(m.type) /\ Unwrap(m.type) = "module") /\ IsSome(m.module)

\* the test of the second branch: exports is present and has the key "."
has_root_export(m) == IsSome(m.exports) /\ IsSome(Unwrap(m.exports)["."])

conditions_entry_require_first(root, c) ==
    IF IsSome(c.require) THEN Ret(Some(join(root, Unwrap(c.require))))
    ELSE IF IsSome(c.import) THEN Ret(Some(join(root, Unwrap(c.import))))
    ELSE Panic

\* the ExportValue::HashMap arm: import if present, else require unwrapped
conditions_entry(root, c) ==
    IF IsSome(c.import) THEN Ret(Some(join(root, Unwrap(c.import))))
    ELSE IF IsSome(c.require) THEN Ret(Some(join(root, Unwrap(c.require))))
    ELSE Panic

\* the match on exports["."]
root_export_entry(root, v) ==
    IF v.kind = "String" THEN Ret(Some(join(root, v.str)))
    ELSE conditions_entry(root, v.map)

main_entry_lenient(root, m) ==
    IF IsSome(m.main) THEN Ret(Some(join(root, Unwrap(m.main)))) ELSE Ret(None)

\* the last branch: main unwrapped
main_entry(root, m) ==
    IF IsSome(m.main) THEN Ret(Some(join(root, Unwrap(m.main)))) ELSE Panic

entry_of_exports_first(root, m) ==
    IF has_root_export(m) THEN root_export_entry(root, Unwrap(Unwrap(m.exports)["."]))
    ELSE IF is_module_package(m) THEN Ret(Some(join(root, Unwrap(m.module))))
    ELSE main_entry(root, m)

\* the body of get_package_entry once the manifest is decoded
entry_of(root, m) ==
    IF is_module_package(m) THEN Ret(Some(join(root, Unwrap(m.module))))
    ELSE IF has_root_export(m)
        THEN root_export_entry(root, Unwrap(Unwrap(m.exports)["."]))
    ELSE main_entry(root, m)

\* get_package_entry: reads the manifest at p again and resolves its entry
get_package_entry(fsv, p) ==
    LET pkg_json == get_package_json(fsv, p)
    IN  IF pkg_json.fault THEN Panic
        ELSE IF IsSome(pkg_json.val)
            THEN IF IsNone(parent(p)) THEN Panic
                 ELSE entry_of(Unwrap(parent(p)), Unwrap(pkg_json.val))
        ELSE Ret(None)

assemble_declared_name(n, path, pj, pe) ==
    IF IsNone(pj) \/ IsNone(pe) THEN Ret(None)
    ELSE IF IsNone(Unwrap(pj).version) THEN Ret(None)
    ELSE IF IsNone(parent(Unwrap(path))) THEN Panic
    ELSE Ret(Some([name |-> IF IsSome(Unwrap(pj).name)
                               THEN Unwrap(Unwrap(pj).name) ELSE n,
                   version |-> Unwrap(Unwrap(pj).version),
                   root_path |-> Unwrap(parent(Unwrap(path))),
                   package_json_path |-> Unwrap(path),
                   package_entry |-> Unwrap(pe),
                   package_json |-> Unwrap(pj)]))

\* the end of get_package_info: the None checks and the PackageInfo
assemble(n, path, pj, pe) ==
    IF IsNone(pj) \/ IsNone(pe) THEN Ret(None)
    ELSE IF IsNone(Unwrap(pj).version) THEN Ret(None)
    ELSE IF IsNone(parent(Unwrap(path))) THEN Panic
    ELSE Ret(Some([name |-> n,
                   version |-> Unwrap(Unwrap(pj).version),
                   root_path |-> Unwrap(parent(Unwrap(path))),
                   package_json_path |-> Unwrap(path),
                   package_entry |-> Unwrap(pe),
                   package_json |-> Unwrap(pj)]))

-----------------------------------------------------------------------------
(* The state machine *)

\* one manifest path holds st, every other path is absent
OneFile(q, st) == [p \in Paths |-> IF p = q THEN st ELSE Absent]

Init ==
    /\ fs \in { OneFile(q, st) : q \in Paths, st \in FileStates }
    /\ proc_cwd = << "/", "work" >>
    /\ CURRENT_DIR = None
    /\ pc = "idle"
    /\ op = "none"
    /\ name = "consola"
    /\ options = [cwd |-> None]
    /\ package_json_path = None
    /\ package_json = None
    /\ package_entry = None
    /\ entry_file = Absent
    /\ info = None
    /\ exists = None
    /\ exists_checks = 0
    /\ reads = 0
    /\ writes = 0
    /\ dirty = FALSE

\* get_package_info, from its entry to the result of get_package_json_path
GetPackageInfo(n, o) ==
    /\ pc = "idle"
    /\ op' = "get_package_info"
    /\ name' = n
    /\ options' = o
    /\ dirty' = FALSE
    /\ IF is_invalid_name(n)
       THEN /\ pc' = "returned"
            /\ info' = None
            /\ UNCHANGED << CURRENT_DIR, package_json_path, exists_checks >>
       ELSE LET r == get_package_json_path(n, o, CURRENT_DIR, proc_cwd, fs)
            IN  /\ CURRENT_DIR' = snapshot_after(o, CURRENT_DIR, proc_cwd)
                /\ exists_checks' = exists_checks + 1
                /\ IF r.fault
                   THEN /\ pc' = "panic_resolve"
                        /\ UNCHANGED << package_json_path, info >>
                   ELSE IF IsNone(r.val)
                   THEN /\ pc' = "returned"
                        /\ info' = None
                        /\ UNCHANGED package_json_path
                   ELSE /\ pc' = "get_package_json"
                        /\ package_json_path' = r.val
                        /\ UNCHANGED info
    /\ UNCHANGED << fs, proc_cwd, package_json, package_entry, entry_file,
                    exists, reads, writes >>

\* get_package_info: let package_json = get_package_json(path)
ReadPackageJson ==
    /\ pc = "get_package_json"
    /\ LET r == get_package_json(fs, Unwrap(package_json_path))
       IN  /\ reads' = reads + 1
           /\ IF r.fault
              THEN pc' = "panic_get_package_json" /\ UNCHANGED package_json
              ELSE pc' = "get_package_entry" /\ package_json' = r.val
    /\ UNCHANGED << fs, proc_cwd, CURRENT_DIR, op, name, options,
                    package_json_path, package_entry, entry_file, info, exists,
                    exists_checks, writes, dirty >>

\* get_package_info: let package_entry = get_package_entry(path)
ReadPackageEntry ==
    /\ pc = "get_package_entry"
    /\ LET r == get_package_entry(fs, Unwrap(package_json_path))
       IN  /\ reads' = reads + 1
           /\ entry_file' = file_at(fs, Unwrap(package_json_path))
           /\ IF r.fault
              THEN pc' = "panic_get_package_entry" /\ UNCHANGED package_entry
              ELSE pc' = "assemble" /\ package_entry' = r.val
    /\ UNCHANGED << fs, proc_cwd, CURRENT_DIR, op, name, options,
                    package_json_path, package_json, info, exists,
                    exists_checks, writes, dirty >>

\* get_package_info: the None checks and the returned PackageInfo
Assemble ==
    /\ pc = "assemble"
    /\ LET r == assemble(name, package_json_path, package_json, package_entry)
       IN  IF r.fault
           THEN pc' = "panic_assemble" /\ UNCHANGED info
           ELSE pc' = "returned" /\ info' = r.val
    /\ UNCHANGED << fs, proc_cwd, CURRENT_DIR, op, name, options,
                    package_json_path, package_json, package_entry, entry_file,
                    exists, exists_checks, reads, writes, dirty >>

\* is_package_exists, whole
IsPackageExists(n, o) ==
    /\ pc = "idle"
    /\ op' = "is_package_exists"
    /\ name' = n
    /\ options' = o
    /\ dirty' = FALSE
    /\ CURRENT_DIR' = snapshot_after(o, CURRENT_DIR, proc_cwd)
    /\ exists_checks' = exists_checks + 1
    /\ LET r == is_package_exists(n, o, CURRENT_DIR, proc_cwd, fs)
       IN  IF r.fault
           THEN pc' = "panic_resolve" /\ UNCHANGED exists
           ELSE pc' = "returned" /\ exists' = Some(r.val)
    /\ UNCHANGED << fs, proc_cwd, package_json_path, package_json,
                    package_entry, entry_file, info, reads, writes >>

Finished ==
    pc \in { "returned", "panic_resolve", "panic_get_package_json",
             "panic_get_package_entry", "panic_assemble" }

\* the call is over (returned, or unwound after a panic); the caller goes on
Return ==
    /\ Finished
    /\ pc' = "idle"
    /\ op' = "none"
    /\ name' = "consola"
    /\ options' = [cwd |-> None]
    /\ package_json_path' = None
    /\ package_json' = None
    /\ package_entry' = None
    /\ entry_file' = Absent
    /\ info' = None
    /\ exists' = None
    /\ exists_checks' = 0
    /\ reads' = 0
    /\ dirty' = FALSE
    /\ UNCHANGED << fs, proc_cwd, CURRENT_DIR, writes >>

\* the caller changes the process's working directory between calls
Chdir(d) ==
    /\ pc = "idle"
    /\ d # proc_cwd
    /\ proc_cwd' = d
    /\ UNCHANGED << fs, CURRENT_DIR, pc, op, name, options, package_json_path,
                    package_json, package_entry, entry_file, info, exists,
                    exists_checks, reads, writes, dirty >>

\* another process rewrites, replaces or deletes the manifest the running
\* call has located and is about to read
Interfere(st) ==
    /\ pc \in { "get_package_json", "get_package_entry" }
    /\ writes < MaxWrites
    /\ st # fs[Unwrap(package_json_path)]
    /\ fs' = [fs EXCEPT ![Unwrap(package_json_path)] = st]
    /\ writes' = writes + 1
    /\ dirty' = TRUE
    /\ UNCHANGED << proc_cwd, CURRENT_DIR, pc, op, name, options,
                    package_json_path, package_json, package_entry, entry_file,
                    info, exists, exists_checks, reads >>

Next ==
    \/ \E n \in Names, o \in OptionsSet : GetPackageInfo(n, o)
    \/ ReadPackageJson
    \/ ReadPackageEntry
    \/ Assemble
    \/ \E n \in Names, o \in OptionsSet : IsPackageExists(n, o)
    \/ Return
    \/ \E d \in WorkDirs : Chdir(d)
    \/ \E st \in InterfereStates : Interfere(st)

Spec == Init /\ [][Next]_vars

-----------------------------------------------------------------------------
(* The terms the properties are stated in *)

\* the call that is running, or has just finished, is get_package_info
InfoCall == op = "get_package_info"

\* the call that has just finished is is_package_exists
ExistsCall == op = "is_package_exists"

\* the base directory of the call: options.cwd if given, else the snapshot
\* of the working directory (taken at first use)
Base ==
    IF IsSome(options.cwd) THEN Unwrap(options.cwd)
    ELSE IF IsSome(CURRENT_DIR) THEN Unwrap(CURRENT_DIR)
    ELSE proc_cwd

\* <base>/node_modules/<name>
PackageDir == Base \o << "node_modules", name >>

\* <base>/node_modules/<name>/package.json
ManifestPath == PackageDir \o << "package.json" >>

\* the filesystem confirms that the manifest path exists
ManifestExists == fs[ManifestPath].kind \in { "unreadable", "malformed", "json" }

\* the filesystem reports that the manifest path does not exist
ManifestMissing == fs[ManifestPath].kind = "absent"

\* the name fails both the current and the legacy validity check
NameInvalid ==
    /\ ~validate(name).valid_for_new_packages
    /\ ~validate(name).valid_for_old_packages

\* dir / p, the path join: a relative p is appended, an absolute p stands alone
Slash(dir, p) == IF Len(p) > 0 /\ p[1] = "/" THEN p ELSE dir \o p

\* rule 1 applies to manifest m
Rule1(m) == m.type = Some("module") /\ m.module # None

\* rule 2 applies to manifest m: exports is present and has the key "."
Rule2(m) == ~Rule1(m) /\ m.exports # None /\ Unwrap(m.exports)["."] # None

\* the value of exports["."] of a manifest under rule 2
RootExport(m) == Unwrap(Unwrap(m.exports)["."])

\* rule 3 applies to manifest m
Rule3(m) == ~Rule1(m) /\ ~Rule2(m)

\* fault case (a): rule 2 with a conditions map that has neither key
FaultCaseA(m) ==
    /\ Rule2(m)
    /\ RootExport(m).kind = "HashMap"
    /\ RootExport(m).map.import = None
    /\ RootExport(m).map.require = None

\* fault case (b): rule 3 with main absent
FaultCaseB(m) == Rule3(m) /\ m.main = None

\* the entry path the precedence rules give for manifest m in directory dir
\* (the empty path where they give none)
ExpectedEntry(dir, m) ==
    IF FaultCaseA(m) \/ FaultCaseB(m) THEN << >>
    ELSE IF Rule1(m) THEN Slash(dir, Unwrap(m.module))
    ELSE IF Rule3(m) THEN Slash(dir, Unwrap(m.main))
    ELSE IF RootExport(m).kind = "String" THEN Slash(dir, RootExport(m).str)
    ELSE IF RootExport(m).map.import # None
        THEN Slash(dir, Unwrap(RootExport(m).map.import))
    ELSE Slash(dir, Unwrap(RootExport(m).map.require))

\* get_package_entry has just acted within the running call
EntryActed == pc \in { "assemble", "panic_get_package_entry" }

\* get_package_entry decoded a manifest
EntryDecoded == EntryActed /\ entry_file.kind = "json"

\* the manifest get_package_entry decoded
EntryManifest == Unwrap(entry_file.doc)

\* get_package_entry returned the path p
EntryReturns(p) == pc = "assemble" /\ package_entry = Some(p)

-----------------------------------------------------------------------------
(* Properties *)

\* C1: whenever get_package_entry has decoded a manifest with type "module"
\* and a module field, it returns containing_directory / module, whatever
\* exports and main are.
C1_ModuleFieldWins ==
    (EntryDecoded /\ Rule1(EntryManifest))
        => EntryReturns(Slash(PackageDir, Unwrap(EntryManifest.module)))

\* rule 1 was applied to a manifest that also has a root export and a main
C1_Witness ==
    /\ EntryDecoded
    /\ Rule1(EntryManifest)
    /\ EntryManifest.exports # None
    /\ Unwrap(EntryManifest.exports)["."] # None
    /\ EntryManifest.main # None
    /\ EntryReturns(PackageDir \o << "dist", "index.mjs" >>)

\* C2: whenever rule 1 does not apply and exports["."] is a conditions map,
\* get_package_entry returns containing_directory / import if the map has an
\* import key, and containing_directory / require if it has require and no
\* import.
C2_ConditionsImportThenRequire ==
    (EntryDecoded /\ Rule2(EntryManifest)
        /\ RootExport(EntryManifest).kind = "HashMap")
        => LET c == RootExport(EntryManifest).map
           IN  /\ c.import # None
                   => EntryReturns(Slash(PackageDir, Unwrap(c.import)))
               /\ (c.import = None /\ c.require # None)
                   => EntryReturns(Slash(PackageDir, Unwrap(c.require)))

\* a conditions map with both keys was resolved to its import path, in a
\* manifest that also declares main
C2_Witness ==
    /\ EntryDecoded
    /\ Rule2(EntryManifest)
    /\ RootExport(EntryManifest).kind = "HashMap"
    /\ RootExport(EntryManifest).map.import # None
    /\ RootExport(EntryManifest).map.require # None
    /\ EntryManifest.main # None
    /\ EntryReturns(PackageDir \o << "dist", "esm.mjs" >>)

\* C3: whenever neither rule 1 nor rule 2 applies and main is present,
\* get_package_entry returns containing_directory / main; this covers a
\* module field without type "module", type "module" without a module field,
\* and an exports map without the key ".".
C3_MainFallback ==
    (EntryDecoded /\ Rule3(EntryManifest) /\ EntryManifest.main # None)
        => EntryReturns(Slash(PackageDir, Unwrap(EntryManifest.main)))

\* main was used although the manifest has a module field (with a type other
\* than "module") and an exports map (without the key ".")
C3_Witness ==
    /\ EntryDecoded
    /\ EntryManifest.module # None
    /\ EntryManifest.type = Some("commonjs")
    /\ EntryManifest.exports # None
    /\ Unwrap(EntryManifest.exports)["."] = None
    /\ EntryReturns(PackageDir \o << "lib", "index.cjs" >>)

\* C9: get_package_entry returns None only when the manifest could not be
\* read; on a decoded manifest it returns a path or faults, and it faults
\* exactly in fault case (a) or (b).
C9_EntryNoneOrFault ==
    /\ (pc = "assemble" /\ package_entry = None)
           => entry_file.kind \notin { "malformed", "json" }
    /\ EntryDecoded
           => /\ pc = "panic_get_package_entry"
                     <=> (FaultCaseA(EntryManifest) \/ FaultCaseB(EntryManifest))
              /\ pc = "assemble" => package_entry # None

\* get_package_entry faulted on a conditions map with neither key, in a
\* manifest that declares main
C9_Witness ==
    /\ EntryDecoded
    /\ FaultCaseA(EntryManifest)
    /\ EntryManifest.main # None
    /\ pc = "panic_get_package_entry"

\* C4: for a name that fails both validity checks, get_package_info returns
\* None whatever the filesystem holds, without any existence check or read.
C4_InvalidNameNoFilesystem ==
    (InfoCall /\ pc # "idle" /\ NameInvalid)
        => /\ pc = "returned"
           /\ info = None
           /\ exists_checks = 0
           /\ reads = 0

\* get_package_info returned None for ".bin" although a well-formed manifest
\* with a version and a main is installed under that name
C4_Witness ==
    /\ InfoCall
    /\ pc = "returned"
    /\ name = ".bin"
    /\ info = None
    /\ fs[ManifestPath].kind = "json"
    /\ Unwrap(fs[ManifestPath].doc).version # None
    /\ Unwrap(fs[ManifestPath].doc).main # None

\* C5: when <base>/node_modules/<name>/package.json does not exist,
\* get_package_info returns None, is_package_exists returns false, and
\* neither reads a file.
C5_MissingManifest ==
    (Finished /\ ~dirty /\ ManifestMissing)
        => /\ pc = "returned"
           /\ reads = 0
           /\ InfoCall => info = None
           /\ ExistsCall => exists = Some(FALSE)

\* get_package_info returned None for a valid name whose manifest is missing
\* under the base of the call while the same package is installed under the
\* other base
C5_Witness ==
    /\ InfoCall
    /\ pc = "returned"
    /\ name = "consola"
    /\ options.cwd = None
    /\ ManifestMissing
    /\ fs[<< "/", "proj", "node_modules", "consola", "package.json" >>].kind = "json"
    /\ info = None
    /\ exists_checks = 1

\* C6: is_package_exists is true iff the manifest path exists, whatever the
\* name's validity and the manifest's content; and a PackageInfo returned by
\* get_package_info implies that the manifest path exists in the same
\* filesystem state.
C6_ExistsIffManifestPath ==
    /\ (ExistsCall /\ Finished) => (exists = Some(TRUE) <=> ManifestExists)
    /\ (ExistsCall /\ pc = "returned") => (exists = Some(FALSE) <=> ManifestMissing)
    /\ (InfoCall /\ pc = "returned" /\ info # None /\ ~dirty) => ManifestExists

\* is_package_exists returned true for an invalid name whose manifest is
\* malformed
C6_Witness ==
    /\ ExistsCall
    /\ pc = "returned"
    /\ exists = Some(TRUE)
    /\ NameInvalid
    /\ fs[ManifestPath].kind = "malformed"

\* C7: a returned PackageInfo has name = the requested name, version = the
\* manifest's version, package_json_path = <base>/node_modules/<name>/
\* package.json, root_path = its parent, package_entry = the entry path of
\* the precedence rules under root_path, package_json = the decoded manifest.
C7_PackageInfoFields ==
    (InfoCall /\ pc = "returned" /\ info # None)
        => LET i == Unwrap(info)
           IN  /\ i.name = name
               /\ i.package_json_path = ManifestPath
               /\ i.root_path = PackageDir
               /\ Some(i.version) = i.package_json.version
               /\ Some(i.package_json) = package_json
               /\ entry_file.kind = "json"
               /\ i.package_entry = ExpectedEntry(i.root_path, EntryManifest)
               /\ ~dirty => /\ fs[ManifestPath] = Json(i.package_json)
                            /\ EntryManifest = i.package_json

\* a PackageInfo was returned for the name "Abc" from a manifest declaring
\* the name "consola", located under the working-directory snapshot after
\* the process had moved to another directory
C7_Witness ==
    /\ InfoCall
    /\ pc = "returned"
    /\ info # None
    /\ name = "Abc"
    /\ options.cwd = None
    /\ CURRENT_DIR = Some(<< "/", "work" >>)
    /\ proc_cwd = << "/", "proj" >>
    /\ Unwrap(info).name = "Abc"
    /\ Unwrap(info).package_json.name = Some("consola")
    /\ Unwrap(info).package_json_path
           = << "/", "work", "node_modules", "Abc", "package.json" >>
    /\ Unwrap(info).package_entry
           = << "/", "work", "node_modules", "Abc", "dist", "index.mjs" >>

\* C8: for a valid name whose manifest exists, is readable and decodes but
\* has no version, get_package_info returns None and never faults, whatever
\* type, module, exports and main are.
C8_MissingVersionIsNone ==
    (InfoCall /\ Finished /\ ~NameInvalid /\ ~dirty
        /\ fs[ManifestPath].kind = "json"
        /\ Unwrap(fs[ManifestPath].doc).version = None)
        => (pc = "returned" /\ info = None)

\* C10: in a returned PackageInfo, package_entry is the entry path of the
\* manifest content returned in package_json, also when another process
\* changes the manifest file between the two reads.
C10_EntryOfSameManifest ==
    (InfoCall /\ pc = "returned" /\ info # None)
        => Unwrap(info).package_entry
               = ExpectedEntry(Unwrap(info).root_path, Unwrap(info).package_json)

=============================================================================
